---- MODULE Spec2Model ----
(***************************************************************************)
(* octowalrus: the presigned-URL service (services/file_service.py), its   *)
(* HTTP endpoints (api/importer.py) and the git workflow helper            *)
(* (services/git.py).                                                      *)
(*                                                                         *)
(* Strings are sequences of tokens.  A token is either one delimiter       *)
(* character of URL syntax or a run of characters that holds no delimiter  *)
(* ("http", "minio", "9000", "X-Amz-Expires=60").  The empty string is     *)
(* <<>>.  An Optional[str] is None (<<>>) or Some(s) (<<s>>).              *)
(***************************************************************************)
EXTENDS Integers, Sequences, FiniteSets, TLC

VARIABLES
    rewrite,     \* one call of replace_url_endpoint: arguments and return value
    settings,    \* core.settings.settings, loaded once at import
    pc,          \* position of each HTTP request
    request,     \* endpoint and query parameters of each HTTP request
    service,     \* the FileService each request got from get_file_service
    clients,     \* the boto3 clients created so far
    loop,        \* the request whose task holds the event loop thread
    sdk_call,    \* the call each request made on the boto3 client
    op_result,   \* what the FileService operation returned or raised
    response,    \* the HTTP response of each request
    git          \* one run of run_workflow

vars == <<rewrite, settings, pc, request, service, clients, loop, sdk_call,
          op_result, response, git>>

(***************************************************************************)
(* Optional values and string helpers                                      *)
(***************************************************************************)
None == <<>>

Some(x) == <<x>>

\* Python truthiness of an Optional[str]: None and "" are falsy
Truthy(opt) == opt # None /\ opt[1] # <<>>

\* s[i:] of Python with a 1-based i: the suffix that starts at position i
From(s, i) == IF i > Len(s) THEN <<>> ELSE SubSeq(s, i, Len(s))

\* s[:i-1]: the prefix that ends before position i
Before(s, i) == IF i <= 1 THEN <<>> ELSE SubSeq(s, 1, i - 1)

\* str.find(c, start) with 1-based positions; 0 when c does not occur
Find(s, c, start) ==
    LET hits == {i \in start..Len(s) : s[i] = c}
    IN  IF hits = {} THEN 0 ELSE CHOOSE i \in hits : \A j \in hits : i <= j

\* str.rfind(c); 0 when c does not occur
RFind(s, c) ==
    LET hits == {i \in 1..Len(s) : s[i] = c}
    IN  IF hits = {} THEN 0 ELSE CHOOSE i \in hits : \A j \in hits : i >= j

Contains(s, c) == \E i \in 1..Len(s) : s[i] = c

(***************************************************************************)
(* urllib.parse as replace_url_endpoint uses it                            *)
(***************************************************************************)
\* tokens made of scheme_chars that start with a letter
AlphaTokens ==
    {"http", "https", "HTTP", "ws", "localhost", "minio", "bucket", "k"}

\* tokens made of scheme_chars that start with a digit
DigitTokens == {"1", "9000", "19000"}

Lower(t) == IF t = "HTTP" THEN "http" ELSE t

LowerSeq(s) == [i \in 1..Len(s) |-> Lower(s[i])]

\* the members of uses_netloc and of uses_params the model's tokens can spell
uses_netloc == {<<>>, <<"http">>, <<"https">>, <<"ws">>}

uses_params == {<<>>, <<"http">>, <<"https">>}

\* _splitnetloc(url, 2): position of the first of / ? # after the leading //
NetlocEnd(url) ==
    LET ds == {i \in 3..Len(url) : url[i] \in {"/", "?", "#"}}
    IN  IF ds = {} THEN Len(url) + 1 ELSE CHOOSE i \in ds : \A j \in ds : i <= j

\* urlsplit: raise ValueError("Invalid IPv6 URL") on unbalanced brackets, and
\* _check_bracketed_host on what the brackets hold (::1 is the one valid
\* address the tokens can spell)
NetlocRaises(netloc) ==
    LET open == Contains(netloc, "[")
        close == Contains(netloc, "]")
        lb == Find(netloc, "[", 1)
        after == From(netloc, lb + 1)
        rb == Find(after, "]", 1)
    IN  \/ open /\ ~close
        \/ close /\ ~open
        \/ open /\ close
           /\ (IF rb = 0 THEN after ELSE Before(after, rb)) # <<":", ":", "1">>

\* urlsplit, last step: the query is what follows the first ?
SplitQuery(scheme, netloc, raises, url, fragment) ==
    LET q == Find(url, "?", 1)
    IN  [scheme |-> scheme, netloc |-> netloc,
         path |-> IF q > 0 THEN Before(url, q) ELSE url,
         query |-> IF q > 0 THEN From(url, q + 1) ELSE <<>>,
         fragment |-> fragment, raises |-> raises]

\* urlsplit, third step: the fragment is what follows the first #
SplitFragment(scheme, netloc, raises, url) ==
    LET h == Find(url, "#", 1)
    IN  SplitQuery(scheme, netloc, raises,
                   IF h > 0 THEN Before(url, h) ELSE url,
                   IF h > 0 THEN From(url, h + 1) ELSE <<>>)

\* urlsplit, second step: a netloc is read only after a leading //
SplitNetloc(scheme, url) ==
    IF Len(url) >= 2 /\ url[1] = "/" /\ url[2] = "/"
    THEN LET e == NetlocEnd(url)
         IN  SplitFragment(scheme, SubSeq(url, 3, e - 1),
                           NetlocRaises(SubSeq(url, 3, e - 1)), From(url, e))
    ELSE SplitFragment(scheme, <<>>, FALSE, url)

\* urlsplit, first step: the position of the : that ends a scheme (letter
\* first, scheme_chars only), 0 when the url has no scheme
SchemeEnd(url) ==
    LET i == Find(url, ":", 1)
    IN  IF /\ i > 1
           /\ url[1] \in AlphaTokens
           /\ \A k \in 1..(i - 1) : url[k] \in AlphaTokens \cup DigitTokens
        THEN i
        ELSE 0

\* urlsplit(url): scheme, netloc, path, query, fragment, or a ValueError
urlsplit(url) ==
    LET i == SchemeEnd(url)
    IN  IF i > 0
        THEN SplitNetloc(LowerSeq(Before(url, i)), From(url, i + 1))
        ELSE SplitNetloc(<<>>, url)

\* _splitparams(url): the position of the ; that starts the params, 0 if none
ParamsAt(url) ==
    IF Contains(url, "/")
    THEN Find(url, ";", RFind(url, "/"))
    ELSE Find(url, ";", 1)

\* urlparse, after urlsplit: the params are split off the last path segment
SplitParams(s) ==
    LET i == IF s.scheme \in uses_params /\ Contains(s.path, ";")
             THEN ParamsAt(s.path)
             ELSE 0
    IN  [scheme |-> s.scheme, netloc |-> s.netloc,
         path |-> IF i > 0 THEN Before(s.path, i) ELSE s.path,
         params |-> IF i > 0 THEN From(s.path, i + 1) ELSE <<>>,
         query |-> s.query, fragment |-> s.fragment, raises |-> s.raises]

\* urlparse(url)
urlparse(url) == SplitParams(urlsplit(url))

\* urlunsplit((scheme, netloc, url, query, fragment))
urlunsplit(scheme, netloc, url, query, fragment) ==
    LET slashes == Len(url) >= 2 /\ url[1] = "/" /\ url[2] = "/"
        withNetloc == \/ netloc # <<>>
                      \/ scheme # <<>> /\ scheme \in uses_netloc /\ ~slashes
        u1 == IF withNetloc
              THEN <<"/", "/">> \o netloc
                   \o (IF url # <<>> /\ url[1] # "/" THEN <<"/">> ELSE <<>>) \o url
              ELSE url
        u2 == IF scheme # <<>> THEN scheme \o <<":">> \o u1 ELSE u1
        u3 == IF query # <<>> THEN u2 \o <<"?">> \o query ELSE u2
    IN  IF fragment # <<>> THEN u3 \o <<"#">> \o fragment ELSE u3

\* urlunparse(components)
urlunparse(p) ==
    urlunsplit(p.scheme, p.netloc,
               IF p.params # <<>> THEN p.path \o <<";">> \o p.params ELSE p.path,
               p.query, p.fragment)

\* a _replace that forgets the scheme
ReplaceEndpoint_NetlocOnly(parsed, external_parsed) ==
    [parsed EXCEPT !.netloc = external_parsed.netloc]

\* parsed._replace(scheme=external_parsed.scheme, netloc=external_parsed.netloc)
ReplaceEndpoint(parsed, external_parsed) ==
    [parsed EXCEPT !.scheme = external_parsed.scheme,
                   !.netloc = external_parsed.netloc]

\* a rewrite without the fallback to the input when a parse fails
replace_url_endpoint_NoFallback(url, external_url) ==
    IF ~Truthy(external_url)
    THEN url
    ELSE urlunparse(ReplaceEndpoint(urlparse(url), urlparse(external_url[1])))

\* a guard that tests `external_url is None` instead of its truthiness
replace_url_endpoint_NoneOnly(url, external_url) ==
    IF external_url = None
    THEN url
    ELSE LET parsed == urlparse(url)
             external_parsed == urlparse(external_url[1])
         IN  IF parsed.raises \/ external_parsed.raises
             THEN url
             ELSE urlunparse(ReplaceEndpoint(parsed, external_parsed))

\* replace_url_endpoint(url, external_url)
replace_url_endpoint(url, external_url) ==
    IF ~Truthy(external_url)
    THEN url
    ELSE LET parsed == urlparse(url)
             external_parsed == urlparse(external_url[1])
         IN  IF parsed.raises \/ external_parsed.raises
             THEN url
             ELSE urlunparse(ReplaceEndpoint(parsed, external_parsed))

(***************************************************************************)
(* Inputs of replace_url_endpoint                                          *)
(***************************************************************************)
MaxKeyLen == 2

MaxExtLen == 3

MaxUrlLen == 3

\* all strings of at most n tokens of A
StringsUpTo(A, n) == UNION {[1..k -> A] : k \in 0..n}

\* object keys as botocore writes them into a URL: percent-encoded, / kept
Keys == StringsUpTo({"k", "/"}, MaxKeyLen) \ {<<>>}

Query == <<"X-Amz-Expires=60">>

\* the URLs generate_presigned_post (no query) and generate_presigned_url
\* (a signed query) return, in path-style and in virtual-hosted-style
PresignedUrls ==
    LET origins == {sch \o <<":", "/", "/">> \o host :
                      sch \in {<<"http">>, <<"https">>},
                      host \in {<<"minio", ":", "9000">>}}
        vorigins == {sch \o <<":", "/", "/">> \o <<"bucket.s3.amazonaws.com">> :
                      sch \in {<<"http">>, <<"https">>}}
    IN  {o \o <<"/", "bucket">> : o \in origins}
        \cup {o \o <<"/", "bucket", "/">> \o k \o <<"?">> \o Query :
                 o \in origins, k \in Keys}
        \cup {o \o <<"/">> : o \in vorigins}
        \cup {o \o <<"/">> \o k \o <<"?">> \o Query : o \in vorigins, k \in Keys}

\* values S3_EXTERNAL_URL can hold: settings.py does not validate it
ExternalUrls ==
    StringsUpTo({"http", "localhost", "19000", ":", "/", "["}, MaxExtLen)
    \cup {<<"http", ":", "/", "/", "localhost", ":", "19000">>,
          <<"https", ":", "/", "/", "localhost">>,
          <<"HTTP", ":", "/", "/", "localhost", ":", "19000">>,
          <<"http", ":", "/", "/", "localhost", ":", "19000", "/", "minio">>,
          <<"http", ":", "/", "/", "[", ":", ":", "1", "]", ":", "19000">>,
          <<"ws", ":", "/", "/", "localhost">>}

\* the external_url argument: None or a string
ExternalArgs == {None} \cup {Some(e) : e \in ExternalUrls}

\* url arguments that are no presigned URL
OtherUrls == StringsUpTo({"http", ":", "/", "?", "#", ";", "k", "["}, MaxUrlLen)

\* the external_url arguments the other urls are rewritten with
FewExternalArgs ==
    {None, Some(<<>>), Some(<<"https", ":", "/", "/", "localhost">>),
     Some(<<"localhost", ":", "19000">>), Some(<<"/", "/", "[">>)}

NoRewrite == [url |-> <<>>, external_url |-> None, returned |-> None]

(***************************************************************************)
(* SpecUrl: replace_url_endpoint applied to every input                    *)
(***************************************************************************)
ServiceIdle ==
    /\ settings = None
    /\ pc = <<>>
    /\ request = <<>>
    /\ service = <<>>
    /\ clients = {}
    /\ loop = 0
    /\ sdk_call = <<>>
    /\ op_result = <<>>
    /\ response = <<>>

GitIdle == git = None

InitUrl ==
    /\ \/ rewrite \in [url : PresignedUrls, external_url : ExternalArgs,
                        returned : {None}]
       \/ rewrite \in [url : OtherUrls, external_url : FewExternalArgs,
                        returned : {None}]
    /\ ServiceIdle
    /\ GitIdle

Rewrite ==
    /\ rewrite.returned = None
    /\ rewrite' = [rewrite EXCEPT
                     !.returned = Some(replace_url_endpoint(rewrite.url,
                                                            rewrite.external_url))]
    /\ UNCHANGED <<settings, pc, request, service, clients, loop, sdk_call,
                   op_result, response, git>>

NextUrl == Rewrite

SpecUrl == InitUrl /\ [][NextUrl]_vars

(***************************************************************************)
(* Settings and FileService (core/settings.py, services/file_service.py)   *)
(***************************************************************************)
MaxRequests == 2

Requests == 1..MaxRequests

\* S3_UPLOAD_EXPIRATION: the default and a short window
Expirations == {60, 3600}

\* S3_EXTERNAL_URL: unset (the default "") or the port-forwarded address
ExternalUrlSettings ==
    {<<>>, <<"http", ":", "/", "/", "localhost", ":", "19000">>}

SettingsValues ==
    [s3_bucket : {<<"bucket">>},
     s3_upload_expiration : Expirations,
     s3_external_url : ExternalUrlSettings]

NoService ==
    [bucket_name |-> <<>>, upload_expiration |-> 0, external_url |-> None,
     client |-> 0]

\* FileService.__init__ around the boto3 client it has just created
FileService(client) ==
    [bucket_name |-> settings.s3_bucket,
     upload_expiration |-> settings.s3_upload_expiration,
     external_url |-> IF settings.s3_external_url # <<>>
                      THEN Some(settings.s3_external_url)
                      ELSE None,
     client |-> client]

\* the request sent to the SDK; fields an operation does not pass are None.
\* attempts counts the invocations of the SDK made for the request, and
\* Contents keeps the Contents entry of a list_objects response
SdkCall(op, client, bucket, key, fields, conditions, expires) ==
    [op |-> op, client |-> client, Bucket |-> bucket, Key |-> key,
     Fields |-> fields, Conditions |-> conditions, ExpiresIn |-> expires,
     outcome |-> "pending", attempts |-> 0, Contents |-> None]

NoCall == SdkCall("none", 0, <<>>, None, None, None, None)

\* a guard that tests `content_type is not None` instead of its truthiness
UploadConditions_IfNotNone(content_type) ==
    IF content_type # None
    THEN << <<"starts-with", "$Content-Type", content_type[1]>> >>
    ELSE <<>>

\* get_upload_link: the conditions list
UploadConditions(content_type) ==
    IF Truthy(content_type)
    THEN << <<"starts-with", "$Content-Type", content_type[1]>> >>
    ELSE <<>>

\* get_upload_link: the Fields argument
UploadFields(content_type) ==
    IF Truthy(content_type)
    THEN Some({<<"Content-Type", content_type[1]>>})
    ELSE None

\* get_upload_link: the call of generate_presigned_post
UploadCall(svc, filename, content_type) ==
    LET conditions == UploadConditions(content_type)
    IN  SdkCall("generate_presigned_post", svc.client, svc.bucket_name,
                Some(filename), UploadFields(content_type),
                IF conditions # <<>> THEN Some(conditions) ELSE None,
                Some(svc.upload_expiration))

\* a get_file with a download expiration of its own
GetFileCall_OwnExpiration(svc, filename) ==
    SdkCall("generate_presigned_url", svc.client, svc.bucket_name,
            Some(filename), None, None, Some(3600))

\* get_file: the call of generate_presigned_url
GetFileCall(svc, filename) ==
    SdkCall("generate_presigned_url", svc.client, svc.bucket_name,
            Some(filename), None, None, Some(svc.upload_expiration))

\* get_file_list: the call of list_objects
ListCall(svc) ==
    SdkCall("list_objects", svc.client, svc.bucket_name, None, None, None, None)

\* what the SDK answers: the URL of the bucket for a presigned POST ...
PostUrl(call) ==
    <<"http", ":", "/", "/", "minio", ":", "9000", "/">> \o call.Bucket

\* ... the form fields: the ones passed in, the key and the signed policy
PostFields(call) ==
    (IF call.Fields # None THEN call.Fields[1] ELSE {})
    \cup {<<"key", call.Key[1]>>, <<"policy", <<"signed">> >>}

\* ... and the signed URL of the object for a presigned GET
GetUrl(call) ==
    PostUrl(call) \o <<"/">> \o call.Key[1] \o <<"?">> \o Query

\* entries of a list_objects response that has a Contents key
Listings ==
    {<< [Key |-> <<"report.csv">>, Size |-> 1] >>,
     << [Key |-> <<"report.csv">>, Size |-> 1], [Key |-> <<"a.csv">>, Size |-> 0] >>}

\* the outcomes of one SDK call: a response, a ClientError, any other Exception
SdkOutcomes(op) ==
    IF op = "list_objects"
    THEN {[kind |-> "ok", Contents |-> c] : c \in {None} \cup {Some(l) : l \in Listings}}
         \cup {[kind |-> k, Contents |-> None] : k \in {"ClientError", "Exception"}}
    ELSE {[kind |-> k, Contents |-> None] : k \in {"ok", "ClientError", "Exception"}}

Returned(value) == [kind |-> "return", value |-> value, message |-> <<>>]

Raised(kind, message) == [kind |-> kind, value |-> None, message |-> message]

NoResult == [kind |-> "none", value |-> None, message |-> <<>>]

\* the message of the FileServiceError raised for a ClientError
ClientErrorMessage(op) ==
    CASE op = "generate_presigned_post" -> "Failed to generate upload URL: "
      [] op = "generate_presigned_url" -> "Failed to generate download URL: "
      [] op = "list_objects" -> "Failed to list files: "

\* the except clauses without the final `except Exception`
ServiceRaise_ClientErrorOnly(op, outcome) ==
    IF outcome.kind = "ClientError"
    THEN Raised("FileServiceError", <<ClientErrorMessage(op), "ClientError">>)
    ELSE Raised("Exception", <<"Exception">>)

\* the except clauses shared by the three operations
ServiceRaise(op, outcome) ==
    IF outcome.kind = "ClientError"
    THEN Raised("FileServiceError", <<ClientErrorMessage(op), "ClientError">>)
    ELSE Raised("FileServiceError", <<"Unexpected error: ", "Exception">>)

\* get_upload_link from the SDK's answer on
get_upload_link(svc, filename, call, outcome) ==
    IF outcome.kind = "ok"
    THEN Returned([upload_link |-> replace_url_endpoint(PostUrl(call),
                                                        svc.external_url),
                   fields |-> PostFields(call),
                   filename |-> filename,
                   expires_in |-> svc.upload_expiration])
    ELSE ServiceRaise(call.op, outcome)

\* get_file from the SDK's answer on
get_file(svc, filename, call, outcome) ==
    IF outcome.kind = "ok"
    THEN Returned([download_link |-> replace_url_endpoint(GetUrl(call),
                                                          svc.external_url),
                   filename |-> filename,
                   expires_in |-> svc.upload_expiration])
    ELSE ServiceRaise(call.op, outcome)

\* a get_file_list that reads response["Contents"] without a default
get_file_list_RequireContents(call, outcome) ==
    IF outcome.kind = "ok" /\ outcome.Contents # None
    THEN Returned(outcome.Contents[1])
    ELSE ServiceRaise(call.op, [outcome EXCEPT !.kind = "Exception"])

\* get_file_list from the SDK's answer on
get_file_list(call, outcome) ==
    IF outcome.kind = "ok"
    THEN Returned(IF outcome.Contents # None THEN outcome.Contents[1] ELSE <<>>)
    ELSE ServiceRaise(call.op, outcome)

(***************************************************************************)
(* The importer endpoints (api/importer.py) under FastAPI                  *)
(***************************************************************************)
HTTP_200_OK == 200

HTTP_422_UNPROCESSABLE_ENTITY == 422

HTTP_500_INTERNAL_SERVER_ERROR == 500

Endpoints == {"get_upload_link", "get_file", "get_file_list"}

Filenames == {<<>>, <<"report.csv">>}

ContentTypes == {<<>>, <<"text/csv">>}

\* a query parameter is absent (None) or present with a value, "" included;
\* a content type is tried only on requests that name a file
RequestValues ==
    [endpoint : {"get_upload_link"},
     filename : {Some(f) : f \in Filenames},
     content_type : {None} \cup {Some(c) : c \in ContentTypes}]
    \cup [endpoint : {"get_upload_link"}, filename : {None}, content_type : {None}]
    \cup [endpoint : {"get_file"},
          filename : {None} \cup {Some(f) : f \in Filenames},
          content_type : {None}]
    \cup [endpoint : {"get_file_list"}, filename : {None}, content_type : {None}]

NoRequest == [endpoint |-> "none", filename |-> None, content_type |-> None]

JsonBody(value) == [kind |-> "json", detail |-> None, value |-> Some(value)]

DetailBody(detail) == [kind |-> "json", detail |-> Some(detail), value |-> None]

TextBody(text) == [kind |-> "text", detail |-> None, value |-> Some(text)]

Response(status, body) == [status |-> status, body |-> body]

NoResponse == Response(0, TextBody(<<>>))

\* a required parameter that also rejects the empty string
RequiredParamMissing_EmptyToo(req) ==
    req.endpoint \in {"get_upload_link", "get_file"} /\ ~Truthy(req.filename)

\* filename: str = Query(...): the parameter is required, any string is accepted
RequiredParamMissing(req) ==
    req.endpoint \in {"get_upload_link", "get_file"} /\ req.filename = None

\* the detail of the `except Exception` branch of each endpoint
GenericDetail(endpoint) ==
    CASE endpoint = "get_upload_link" -> <<"Failed to generate upload link">>
      [] endpoint = "get_file" -> <<"Failed to generate download link">>
      [] endpoint = "get_file_list" -> <<"Failed to generate file list">>

\* endpoints without the `except FileServiceError` clause
EndpointResponse_GenericOnly(endpoint, result) ==
    IF result.kind = "return"
    THEN Response(HTTP_200_OK, JsonBody(result.value))
    ELSE Response(HTTP_500_INTERNAL_SERVER_ERROR,
                  DetailBody(GenericDetail(endpoint)))

\* the try/except of each endpoint around the awaited service operation
EndpointResponse(endpoint, result) ==
    CASE result.kind = "return" ->
            Response(HTTP_200_OK, JsonBody(result.value))
      [] result.kind = "FileServiceError" ->
            Response(HTTP_500_INTERNAL_SERVER_ERROR, DetailBody(result.message))
      [] OTHER ->
            Response(HTTP_500_INTERNAL_SERVER_ERROR,
                     DetailBody(GenericDetail(endpoint)))

\* the service call each endpoint makes with its parameters
EndpointCall(req, svc) ==
    CASE req.endpoint = "get_upload_link" ->
            UploadCall(svc, req.filename[1], req.content_type)
      [] req.endpoint = "get_file" -> GetFileCall(svc, req.filename[1])
      [] req.endpoint = "get_file_list" -> ListCall(svc)

\* the service operation from the SDK's answer on
ServiceResult(req, svc, call, outcome) ==
    CASE req.endpoint = "get_upload_link" ->
            get_upload_link(svc, req.filename[1], call, outcome)
      [] req.endpoint = "get_file" -> get_file(svc, req.filename[1], call, outcome)
      [] req.endpoint = "get_file_list" -> get_file_list(call, outcome)

UrlIdle == rewrite = NoRewrite

Init ==
    /\ settings \in SettingsValues
    /\ pc = [r \in Requests |-> "new"]
    /\ request = [r \in Requests |-> NoRequest]
    /\ service = [r \in Requests |-> NoService]
    /\ clients = {}
    /\ loop = 0
    /\ sdk_call = [r \in Requests |-> NoCall]
    /\ op_result = [r \in Requests |-> NoResult]
    /\ response = [r \in Requests |-> NoResponse]
    /\ UrlIdle
    /\ GitIdle

\* a request is routed to its endpoint; FastAPI starts get_file_service, a
\* plain function, in the thread pool
Receive(r) ==
    /\ pc[r] = "new"
    /\ IF r = 1 THEN TRUE ELSE pc[r - 1] # "new"
    /\ \E req \in RequestValues : request' = [request EXCEPT ![r] = req]
    /\ pc' = [pc EXCEPT ![r] = "deps"]
    /\ UNCHANGED <<rewrite, settings, service, clients, loop, sdk_call,
                   op_result, response, git>>

\* get_file_service returns FileService(): __init__ creates a boto3 client,
\* named here after the request it was created for
GetFileService(r) ==
    /\ pc[r] = "deps"
    /\ clients' = clients \cup {r}
    /\ service' = [service EXCEPT ![r] = FileService(r)]
    /\ pc' = [pc EXCEPT ![r] = "ready"]
    /\ UNCHANGED <<rewrite, settings, request, loop, sdk_call, op_result,
                   response, git>>

\* boto3.client raises inside FileService(): the exception leaves the
\* dependency, no endpoint code has run, and the server answers with its
\* plain-text 500
GetFileServiceRaises(r) ==
    /\ pc[r] = "deps"
    /\ response' = [response EXCEPT ![r] =
                      Response(HTTP_500_INTERNAL_SERVER_ERROR,
                               TextBody(<<"Internal Server Error">>))]
    /\ pc' = [pc EXCEPT ![r] = "dep_error"]
    /\ UNCHANGED <<rewrite, settings, request, service, clients, loop, sdk_call,
                   op_result, git>>

\* the request's task gets the event loop, but the required filename is
\* absent: FastAPI answers 422 and the endpoint is not called
RejectRequest(r) ==
    /\ pc[r] = "ready"
    /\ loop = 0
    /\ RequiredParamMissing(request[r])
    /\ response' = [response EXCEPT ![r] =
                      Response(HTTP_422_UNPROCESSABLE_ENTITY,
                               DetailBody(<<"Field required">>))]
    /\ pc' = [pc EXCEPT ![r] = "invalid"]
    /\ UNCHANGED <<rewrite, settings, request, service, clients, loop, sdk_call,
                   op_result, git>>

\* the request's task gets the event loop: the endpoint awaits the service
\* operation, which calls the SDK synchronously; the task keeps the loop's
\* thread until the SDK answers
CallService(r) ==
    /\ pc[r] = "ready"
    /\ loop = 0
    /\ ~RequiredParamMissing(request[r])
    /\ sdk_call' = [sdk_call EXCEPT ![r] =
                      [EndpointCall(request[r], service[r])
                          EXCEPT !.attempts = sdk_call[r].attempts + 1]]
    /\ loop' = r
    /\ pc' = [pc EXCEPT ![r] = "backend"]
    /\ UNCHANGED <<rewrite, settings, request, service, clients, op_result,
                   response, git>>

\* an operation that calls the SDK a second time when the first call fails
SdkReturns_RetryOnce(r) ==
    /\ pc[r] = "backend"
    /\ \E outcome \in SdkOutcomes(sdk_call[r].op) :
          LET result == ServiceResult(request[r], service[r], sdk_call[r], outcome)
              retry == outcome.kind # "ok" /\ sdk_call[r].attempts < 2
          IN  /\ sdk_call' = [sdk_call EXCEPT ![r].outcome = outcome.kind,
                                              ![r].Contents = outcome.Contents]
              /\ op_result' = [op_result EXCEPT ![r] =
                                 IF retry THEN NoResult ELSE result]
              /\ response' = [response EXCEPT ![r] =
                                IF retry
                                THEN NoResponse
                                ELSE EndpointResponse(request[r].endpoint, result)]
              /\ pc' = [pc EXCEPT ![r] = IF retry THEN "ready" ELSE "responded"]
    /\ loop' = 0
    /\ UNCHANGED <<rewrite, settings, request, service, clients, git>>

\* the SDK answers or raises; the operation returns or raises, the endpoint
\* builds the response, and the task gives the loop back
SdkReturns(r) ==
    /\ pc[r] = "backend"
    /\ \E outcome \in SdkOutcomes(sdk_call[r].op) :
          LET result == ServiceResult(request[r], service[r], sdk_call[r], outcome)
          IN  /\ sdk_call' = [sdk_call EXCEPT ![r].outcome = outcome.kind,
                                              ![r].Contents = outcome.Contents]
              /\ op_result' = [op_result EXCEPT ![r] = result]
              /\ response' = [response EXCEPT ![r] =
                                EndpointResponse(request[r].endpoint, result)]
    /\ loop' = 0
    /\ pc' = [pc EXCEPT ![r] = "responded"]
    /\ UNCHANGED <<rewrite, settings, request, service, clients, git>>

Next ==
    \E r \in Requests :
        \/ Receive(r)
        \/ GetFileService(r)
        \/ GetFileServiceRaises(r)
        \/ RejectRequest(r)
        \/ CallService(r)
        \/ SdkReturns(r)

Spec == Init /\ [][Next]_vars

(***************************************************************************)
(* The git workflow (services/git.py)                                      *)
(***************************************************************************)
MaxPushInfo == 2

\* csv_file_path arguments
CsvPaths ==
    {<<"data.csv">>, <<"dir", "/", "data.csv">>, <<"dir", "/">>, <<>>}

\* the flags of one PushInfo of the push result
PushFlags == {{"UP_TO_DATE"}, {"ERROR"}, {"REJECTED", "ERROR"}}

\* the results origin.push can return: a list of PushInfo, possibly empty
PushInfos == StringsUpTo(PushFlags, MaxPushInfo)

\* Path(csv_file_path).name: the last component, trailing slashes dropped
RECURSIVE PathName(_)
PathName(path) ==
    IF path = <<>>
    THEN <<>>
    ELSE IF path[Len(path)] = "/"
         THEN PathName(Before(path, Len(path)))
         ELSE From(path, RFind(path, "/") + 1)

\* a check that looks for the ERROR flag in every entry of the push result
PushMessage_AnyEntry(push_info) ==
    IF \E i \in 1..Len(push_info) : "ERROR" \in push_info[i]
    THEN <<"Commit Failed during push!">>
    ELSE <<"Commit Successful! Data Imported Successfully!">>

\* commit_repo: the check of the push result
PushMessage(push_info) ==
    IF push_info # <<>> /\ "ERROR" \in push_info[1]
    THEN <<"Commit Failed during push!">>
    ELSE <<"Commit Successful! Data Imported Successfully!">>

\* commit_repo: the `except Exception as e` around add, commit and push
CommitErrorMessage(step) ==
    <<"An error occurred during commit/push: ", step>>

Event(step, outcome) == [step |-> step, outcome |-> outcome]

GitStart(csv_file_path) ==
    [pc |-> "start", csv_file_path |-> csv_file_path, log |-> <<>>,
     clone_dir |-> "absent", json_filename |-> <<>>, commit_message |-> <<>>,
     push_info |-> <<>>, result_message |-> <<>>, returned |-> None,
     raised |-> None]

InitGit ==
    /\ git \in {GitStart(p) : p \in CsvPaths}
    /\ UrlIdle
    /\ ServiceIdle

GitFrame ==
    UNCHANGED <<rewrite, settings, pc, request, service, clients, loop,
                sdk_call, op_result, response>>

\* clone_repo succeeds; run_workflow then takes the file name off the path
CloneRepo ==
    /\ git.pc = "start"
    /\ git' = [git EXCEPT !.pc = "cloned",
                          !.log = Append(@, Event("clone", "ok")),
                          !.clone_dir = "cloned",
                          !.json_filename = PathName(git.csv_file_path),
                          !.commit_message = <<"Add ">> \o PathName(git.csv_file_path)]
    /\ GitFrame

\* a run_workflow that removes the clone directory after a failed clone too
CloneRepoFails_ThenCleanup ==
    /\ git.pc = "start"
    /\ \E left \in {"absent", "partial"} :
          git' = [git EXCEPT !.pc = "commit_done",
                             !.log = Append(@, Event("clone", "GitCommandError")),
                             !.clone_dir = left,
                             !.result_message =
                                 <<"Workflow Failed at: Repository Cloning.">>]
    /\ GitFrame

\* clone_from raises GitCommandError: clone_repo raises RepositoryCloneError
\* and run_workflow returns at once, leaving what the clone left behind
CloneRepoFails ==
    /\ git.pc = "start"
    /\ \E left \in {"absent", "partial"} :
          git' = [git EXCEPT !.pc = "done",
                             !.log = Append(@, Event("clone", "GitCommandError")),
                             !.clone_dir = left,
                             !.returned = Some(<<"Workflow Failed at: Repository Cloning.">>)]
    /\ GitFrame

\* clone_from raises something that is no GitCommandError: neither clone_repo
\* nor run_workflow catches it
CloneRepoRaises ==
    /\ git.pc = "start"
    /\ \E left \in {"absent", "partial"} :
          git' = [git EXCEPT !.pc = "done",
                             !.log = Append(@, Event("clone", "Exception")),
                             !.clone_dir = left,
                             !.raised = Some("Exception")]
    /\ GitFrame

\* commit_repo: repo.index.add([file_to_add])
IndexAdd ==
    /\ git.pc = "cloned"
    /\ git' = [git EXCEPT !.pc = "staged", !.log = Append(@, Event("add", "ok"))]
    /\ GitFrame

\* commit_repo: repo.index.commit(commit_message)
IndexCommit ==
    /\ git.pc = "staged"
    /\ git' = [git EXCEPT !.pc = "committed",
                          !.log = Append(@, Event("commit", "ok"))]
    /\ GitFrame

\* commit_repo: origin.push returns, and the first PushInfo decides the message
Push ==
    /\ git.pc = "committed"
    /\ \E push_info \in PushInfos :
          git' = [git EXCEPT !.pc = "commit_done",
                             !.log = Append(@, Event("push", "ok")),
                             !.push_info = push_info,
                             !.result_message = PushMessage(push_info)]
    /\ GitFrame

\* the step commit_repo is at, while it is inside its try block
CommitStep ==
    CASE git.pc = "cloned" -> "add"
      [] git.pc = "staged" -> "commit"
      [] git.pc = "committed" -> "push"

\* commit_repo: add, commit or push raises, and the except clause returns
CommitRepoRaises ==
    /\ git.pc \in {"cloned", "staged", "committed"}
    /\ git' = [git EXCEPT !.pc = "commit_done",
                          !.log = Append(@, Event(CommitStep, "Exception")),
                          !.result_message = CommitErrorMessage(CommitStep)]
    /\ GitFrame

\* a cleanup that is skipped unless the commit and the push succeeded
Cleanup_OnlyAfterSuccess ==
    /\ git.pc = "commit_done"
    /\ IF git.result_message = <<"Commit Successful! Data Imported Successfully!">>
       THEN git' = [git EXCEPT !.pc = "cleaned",
                               !.log = Append(@, Event("rmtree", "ok")),
                               !.clone_dir = "absent"]
       ELSE git' = [git EXCEPT !.pc = "cleaned"]
    /\ GitFrame

\* run_workflow: shutil.rmtree(clone_dir) inside try/except Exception
Cleanup ==
    /\ git.pc = "commit_done"
    /\ \/ git' = [git EXCEPT !.pc = "cleaned",
                             !.log = Append(@, Event("rmtree", "ok")),
                             !.clone_dir = "absent"]
       \/ git' = [git EXCEPT !.pc = "cleaned",
                             !.log = Append(@, Event("rmtree", "Exception"))]
    /\ GitFrame

\* run_workflow: return result_message
ReturnResult ==
    /\ git.pc = "cleaned"
    /\ git' = [git EXCEPT !.pc = "done", !.returned = Some(git.result_message)]
    /\ GitFrame

NextGit ==
    \/ CloneRepo
    \/ CloneRepoFails
    \/ CloneRepoRaises
    \/ IndexAdd
    \/ IndexCommit
    \/ Push
    \/ CommitRepoRaises
    \/ Cleanup
    \/ ReturnResult

SpecGit == InitGit /\ [][NextGit]_vars

(***************************************************************************)
(* Claims about replace_url_endpoint (SpecUrl)                             *)
(***************************************************************************)
Rewritten == rewrite.returned # None

\* the components of the returned URL, of the input and of the external URL
Out == urlparse(rewrite.returned[1])

In == urlparse(rewrite.url)

Ext == urlparse(rewrite.external_url[1])

OnlyEndpointChanged ==
    /\ Out.scheme = Ext.scheme
    /\ Out.netloc = Ext.netloc
    /\ Out.path = In.path
    /\ Out.params = In.params
    /\ Out.query = In.query
    /\ Out.fragment = In.fragment

\* C1 as stated: for every presigned URL and every non-empty external URL the
\* returned URL has the external URL's scheme and host:port and the input's
\* path and query, and nothing else differs.
C1_EveryExternalUrl ==
    (Rewritten /\ rewrite.url \in PresignedUrls /\ Truthy(rewrite.external_url))
        => OnlyEndpointChanged

\* C1 amended: the same for every external URL that urlparse accepts and that
\* carries a host:port (a non-empty netloc); an external URL urlparse rejects
\* leaves the URL as it was.
C1_ExternalUrlWithHost ==
    (Rewritten /\ rewrite.url \in PresignedUrls /\ Truthy(rewrite.external_url))
        => /\ (~Ext.raises /\ Ext.netloc # <<>>) => OnlyEndpointChanged
           /\ Ext.raises => rewrite.returned[1] = rewrite.url

C1_Witness ==
    /\ rewrite.url = <<"http", ":", "/", "/", "minio", ":", "9000",
                       "/", "bucket", "/", "k", "?", "X-Amz-Expires=60">>
    /\ rewrite.external_url = Some(<<"https", ":", "/", "/", "localhost">>)
    /\ rewrite.returned = Some(<<"https", ":", "/", "/", "localhost",
                                 "/", "bucket", "/", "k", "?", "X-Amz-Expires=60">>)

\* C2: with no external URL configured (None or the empty string) the function
\* returns its input unchanged, whatever the input.
C2_NoExternalUrlIsIdentity ==
    (Rewritten /\ ~Truthy(rewrite.external_url))
        => rewrite.returned[1] = rewrite.url

C2_Witness ==
    /\ Rewritten
    /\ rewrite.external_url = Some(<<>>)
    /\ rewrite.url = <<"https", ":", "/", "/", "bucket.s3.amazonaws.com", "/",
                       "/", "k", "?", "X-Amz-Expires=60">>
    /\ rewrite.returned[1] = rewrite.url

(***************************************************************************)
(* Claims about the storage operations and the endpoints (Spec)            *)
(***************************************************************************)
\* the request has been answered
Answered(r) == pc[r] \in {"dep_error", "invalid", "responded"}

\* C3: every failure of a storage operation, a ClientError or any other
\* exception, leaves the operation as a FileServiceError; the two causes
\* differ in the message only, and nothing else escapes.
C3_SingleErrorType ==
    \A r \in Requests :
        pc[r] = "responded" =>
            /\ op_result[r].kind \in {"return", "FileServiceError"}
            /\ sdk_call[r].outcome = "ok" <=> op_result[r].kind = "return"
            /\ sdk_call[r].outcome = "ClientError" =>
                  op_result[r].message[1] \in
                      {"Failed to generate upload URL: ",
                       "Failed to generate download URL: ",
                       "Failed to list files: "}
            /\ sdk_call[r].outcome = "Exception" =>
                  op_result[r].message[1] = "Unexpected error: "

C3_Witness ==
    \E r, q \in Requests :
        /\ pc[r] = "responded" /\ pc[q] = "responded"
        /\ request[r].endpoint = "get_file_list"
        /\ sdk_call[r].outcome = "Exception"
        /\ op_result[r].kind = "FileServiceError"
        /\ request[q].endpoint = "get_upload_link"
        /\ sdk_call[q].outcome = "ClientError"
        /\ op_result[q].kind = "FileServiceError"

\* C4 as stated: every error raised while a request is served, obtaining the
\* service included, is answered with a 500 whose body has a detail field.
C4_Every500HasDetail ==
    \A r \in Requests :
        (pc[r] = "dep_error" \/ (pc[r] = "responded" /\ op_result[r].kind # "return"))
            => /\ response[r].status = HTTP_500_INTERNAL_SERVER_ERROR
               /\ response[r].body.detail # None

\* C5 as stated: no endpoint answers 4xx, and every answer that is no
\* success is a 500.
C5_NeverA4xx ==
    \A r \in Requests :
        Answered(r) =>
            response[r].status \in {HTTP_200_OK, HTTP_500_INTERNAL_SERVER_ERROR}

\* C5 amended: a request whose filename is present, the empty string
\* included, or whose endpoint takes none, is answered 200 or 500; the one
\* 4xx is the 422 of a request that leaves the required filename out.
C5_Only422ForAbsentFilename ==
    \A r \in Requests :
        Answered(r) =>
            /\ response[r].status \in {HTTP_200_OK, HTTP_422_UNPROCESSABLE_ENTITY,
                                       HTTP_500_INTERNAL_SERVER_ERROR}
            /\ response[r].status = HTTP_422_UNPROCESSABLE_ENTITY =>
                  /\ request[r].endpoint \in {"get_upload_link", "get_file"}
                  /\ request[r].filename = None
            /\ (request[r].filename # None \/ request[r].endpoint = "get_file_list")
                  => response[r].status \in {HTTP_200_OK,
                                             HTTP_500_INTERNAL_SERVER_ERROR}

C5_Witness ==
    \E r, q \in Requests :
        /\ Answered(r) /\ Answered(q)
        /\ request[r].filename = Some(<<>>)
        /\ response[r].status = HTTP_500_INTERNAL_SERVER_ERROR
        /\ request[q].filename = None
        /\ response[q].status = HTTP_422_UNPROCESSABLE_ENTITY

\* C6: an upload grant and a download grant report the configured upload
\* expiration, the SDK was given that same value as ExpiresIn, and the
\* grant's filename is the requested one.
C6_ExpiresInIsConfigured ==
    \A r \in Requests :
        /\ (pc[r] \in {"backend", "responded"} /\ request[r].endpoint # "get_file_list")
              => /\ sdk_call[r].ExpiresIn = Some(settings.s3_upload_expiration)
                 /\ sdk_call[r].Key = request[r].filename
        /\ (pc[r] = "responded" /\ request[r].endpoint # "get_file_list"
                /\ response[r].status = HTTP_200_OK)
              => /\ response[r].body.value[1].expires_in
                        = settings.s3_upload_expiration
                 /\ response[r].body.value[1].filename = request[r].filename[1]

C6_Witness ==
    \E r, q \in Requests :
        /\ request[r].endpoint = "get_upload_link"
        /\ request[q].endpoint = "get_file"
        /\ response[r].status = HTTP_200_OK
        /\ response[q].status = HTTP_200_OK
        /\ response[q].body.value[1].expires_in = 60
        /\ sdk_call[q].ExpiresIn = Some(60)

ContentTypeConstraint(call, content_type) ==
    /\ call.Conditions = Some(<< <<"starts-with", "$Content-Type", content_type>> >>)
    /\ call.Fields = Some({<<"Content-Type", content_type>>})

NoContentTypeConstraint(call) == call.Conditions = None /\ call.Fields = None

\* C7 as stated: the request to the SDK carries the starts-with condition and
\* the pinned Content-Type field exactly when the caller supplied a
\* content type.
C7_ConstraintIffSupplied ==
    \A r \in Requests :
        sdk_call[r].op = "generate_presigned_post" =>
            IF request[r].content_type # None
            THEN ContentTypeConstraint(sdk_call[r], request[r].content_type[1])
            ELSE NoContentTypeConstraint(sdk_call[r])

\* C7 amended: the constraint is attached exactly when the content type
\* supplied is not empty; an omitted and an empty content type attach none.
C7_ConstraintIffNonEmpty ==
    \A r \in Requests :
        sdk_call[r].op = "generate_presigned_post" =>
            IF request[r].content_type \notin {None, Some(<<>>)}
            THEN ContentTypeConstraint(sdk_call[r], request[r].content_type[1])
            ELSE NoContentTypeConstraint(sdk_call[r])

C7_Witness ==
    \E r, q \in Requests :
        /\ request[r].content_type = Some(<<"text/csv">>)
        /\ sdk_call[r].op = "generate_presigned_post"
        /\ ContentTypeConstraint(sdk_call[r], <<"text/csv">>)
        /\ response[r].status = HTTP_200_OK
        /\ <<"Content-Type", <<"text/csv">> >> \in response[r].body.value[1].fields
        /\ request[q].content_type = Some(<<>>)
        /\ sdk_call[q].op = "generate_presigned_post"
        /\ NoContentTypeConstraint(sdk_call[q])

\* C8 as stated: one storage client is created and every request uses it; no
\* request creates another.
C8_SingleClient ==
    /\ Cardinality(clients) <= 1
    /\ \A r, q \in Requests :
          (service[r].client # 0 /\ service[q].client # 0)
              => service[r].client = service[q].client

\* C9 as stated: while one request's operation waits for the SDK, another
\* request that is ready to run its operation can go ahead.
C9_OperationsDoNotBlock ==
    \A r, q \in Requests :
        (r # q /\ pc[r] = "backend" /\ pc[q] = "ready")
            => ENABLED (CallService(q) \/ RejectRequest(q))

(***************************************************************************)
(* Claims about run_workflow (SpecGit)                                     *)
(***************************************************************************)
StepRank(step) ==
    CASE step = "clone" -> 1
      [] step = "add" -> 2
      [] step = "commit" -> 3
      [] step = "push" -> 4
      [] step = "rmtree" -> 5

\* the steps taken so far are in the order clone, add, commit, push, rmtree
InOrder(log) ==
    \A i, j \in 1..Len(log) :
        i < j => StepRank(log[i].step) < StepRank(log[j].step)

CloneSucceeded == git.log # <<>> /\ git.log[1] = Event("clone", "ok")

\* C10: the steps run in the order clone, stage, commit, push, cleanup; once
\* the clone has succeeded, the removal of the clone directory is attempted
\* after the commit/push step, whatever that step's outcome, nothing is
\* undone, and what run_workflow returns is that step's result even when
\* the removal fails.
C10_CleanupAlwaysAttempted ==
    /\ InOrder(git.log)
    /\ (git.pc = "done" /\ CloneSucceeded) =>
          LET n == Len(git.log)
          IN  /\ n >= 3
              /\ git.log[n].step = "rmtree"
              /\ git.log[n - 1].step \in {"add", "commit", "push"}
              /\ git.raised = None
              /\ git.returned = Some(git.result_message)
              /\ IF git.log[n - 1].outcome = "Exception"
                 THEN git.returned[1] =
                        <<"An error occurred during commit/push: ", git.log[n - 1].step>>
                 ELSE git.returned[1] \in
                        {<<"Commit Failed during push!">>,
                         <<"Commit Successful! Data Imported Successfully!">>}
              /\ git.log[n].outcome = "ok" <=> git.clone_dir = "absent"

C10_Witness ==
    /\ git.pc = "done"
    /\ git.log = <<Event("clone", "ok"), Event("add", "ok"), Event("commit", "ok"),
                   Event("push", "ok"), Event("rmtree", "Exception")>>
    /\ git.push_info = << {"ERROR"} >>
    /\ git.clone_dir = "cloned"
    /\ git.returned = Some(<<"Commit Failed during push!">>)

\* C11 as stated: run_workflow never lets an exception out; whatever fails in
\* the clone, the staging, the commit, the push or the cleanup, it ends by
\* returning a string.
C11_NeverRaises ==
    /\ git.raised = None
    /\ git.pc = "done" => git.returned # None

(***************************************************************************)
(* Further claims about the storage operations (Spec)                      *)
(***************************************************************************)
\* C12: a list_objects response without a Contents entry makes get_file_list
\* return the empty sequence, not an error; a response with one makes it
\* return exactly those entries, in the backend's order, from the one call.
C12_ListingIsBackendContents ==
    \A r \in Requests :
        (pc[r] = "responded" /\ request[r].endpoint = "get_file_list"
            /\ sdk_call[r].outcome = "ok")
          => /\ op_result[r].kind = "return"
             /\ op_result[r].value =
                   (IF sdk_call[r].Contents = None
                    THEN <<>>
                    ELSE sdk_call[r].Contents[1])
             /\ response[r] = Response(HTTP_200_OK, JsonBody(op_result[r].value))
             /\ sdk_call[r].op = "list_objects"
             /\ sdk_call[r].attempts = 1

C12_Witness ==
    \E r, q \in Requests :
        /\ pc[r] = "responded" /\ pc[q] = "responded"
        /\ sdk_call[r].op = "list_objects" /\ sdk_call[q].op = "list_objects"
        /\ sdk_call[r].outcome = "ok" /\ sdk_call[r].Contents = None
        /\ op_result[r] = Returned(<<>>)
        /\ response[r].status = HTTP_200_OK
        /\ sdk_call[q].outcome = "ok"
        /\ op_result[q] = Returned(<< [Key |-> <<"report.csv">>, Size |-> 1],
                                      [Key |-> <<"a.csv">>, Size |-> 0] >>)

\* C13: an operation invokes the SDK once and never again; a call that
\* fails has become the operation's error by the time the SDK call is over,
\* and the request is answered without a second call.
C13_ExactlyOneSdkCall ==
    \A r \in Requests :
        /\ sdk_call[r].attempts <= 1
        /\ pc[r] \in {"backend", "responded"} <=> sdk_call[r].attempts = 1
        /\ sdk_call[r].outcome \in {"ClientError", "Exception"}
              => /\ pc[r] = "responded"
                 /\ op_result[r].kind = "FileServiceError"
                 /\ response[r].status = HTTP_500_INTERNAL_SERVER_ERROR

C13_Witness ==
    \E r, q \in Requests :
        /\ pc[r] = "responded" /\ pc[q] = "responded"
        /\ sdk_call[r].op = "generate_presigned_post"
        /\ sdk_call[r].outcome = "ClientError"
        /\ sdk_call[r].attempts = 1
        /\ sdk_call[q].op = "list_objects"
        /\ sdk_call[q].outcome = "Exception"
        /\ sdk_call[q].attempts = 1

(***************************************************************************)
(* Further claims about replace_url_endpoint (SpecUrl)                     *)
(***************************************************************************)
\* C14: replace_url_endpoint always returns: when urlparse raises on the URL
\* or on the external URL, what it returns is its input URL, unchanged.
C14_ParseFailureReturnsInput ==
    (Rewritten /\ Truthy(rewrite.external_url) /\ (In.raises \/ Ext.raises))
        => rewrite.returned[1] = rewrite.url

C14_Witness ==
    \E e \in ExternalUrls :
        /\ Rewritten
        /\ rewrite.external_url = Some(e)
        /\ ~urlparse(e).raises
        /\ rewrite.url = <<"/", "/", "[">>
        /\ In.raises
        /\ rewrite.returned = Some(rewrite.url)

(***************************************************************************)
(* Further claims about run_workflow and commit_repo (SpecGit)             *)
(***************************************************************************)
CloneFailed == git.log # <<>> /\ git.log[1] = Event("clone", "GitCommandError")

\* C15: when the clone fails with RepositoryCloneError, run_workflow has
\* returned "Workflow Failed at: Repository Cloning." with the clone as its
\* only step: nothing is staged, committed or pushed, the clone directory is
\* not removed, and what the clone left there stays.
C15_CloneFailureReturnsAtOnce ==
    CloneFailed =>
        /\ git.pc = "done"
        /\ git.log = <<Event("clone", "GitCommandError")>>
        /\ git.returned = Some(<<"Workflow Failed at: Repository Cloning.">>)
        /\ git.raised = None
        /\ git.result_message = <<>>
        /\ git.push_info = <<>>
        /\ git.clone_dir \in {"absent", "partial"}
        /\ ~ENABLED Cleanup

C15_Witness ==
    /\ CloneFailed
    /\ git.pc = "done"
    /\ git.clone_dir = "partial"
    /\ git.returned = Some(<<"Workflow Failed at: Repository Cloning.">>)

\* the push returned and commit_repo has decided its message
PushReturned ==
    git.log # <<>> /\ \E i \in 1..Len(git.log) : git.log[i] = Event("push", "ok")

\* C16: once the push has returned, the result is "Commit Failed during
\* push!" exactly when the first entry of the push result carries ERROR; an
\* empty result and a result whose ERROR is in a later entry only give the
\* success message.
C16_OnlyFirstPushEntryChecked ==
    PushReturned =>
        /\ git.result_message = <<"Commit Failed during push!">>
              <=> (git.push_info # <<>> /\ "ERROR" \in git.push_info[1])
        /\ (git.push_info = <<>> \/ "ERROR" \notin git.push_info[1])
              => git.result_message =
                    <<"Commit Successful! Data Imported Successfully!">>
        /\ git.pc = "done" => git.returned = Some(git.result_message)

C16_Witness ==
    /\ git.pc = "done"
    /\ PushReturned
    /\ git.push_info = << {"UP_TO_DATE"}, {"ERROR"} >>
    /\ git.returned = Some(<<"Commit Successful! Data Imported Successfully!">>)

(***************************************************************************)
(* The endpoints' fallback branch (Spec)                                   *)
(***************************************************************************)
\* C17: every 500 an endpoint handler produces carries the message of the
\* FileServiceError the operation raised, which begins with "Failed to ..."
\* for a ClientError and with "Unexpected error: " otherwise; the detail of
\* the handler's generic `except Exception` branch is never the answer.
C17_FallbackBranchNeverTaken ==
    \A r \in Requests :
        (pc[r] = "responded" /\ response[r].status = HTTP_500_INTERNAL_SERVER_ERROR)
            => /\ op_result[r].kind = "FileServiceError"
               /\ response[r].body = DetailBody(op_result[r].message)
               /\ op_result[r].message[1] \in
                     {"Failed to generate upload URL: ",
                      "Failed to generate download URL: ",
                      "Failed to list files: ",
                      "Unexpected error: "}
               /\ response[r].body.detail # Some(GenericDetail(request[r].endpoint))

C17_Witness ==
    \E r, q \in Requests :
        /\ pc[r] = "responded" /\ pc[q] = "responded"
        /\ request[r].endpoint = "get_file"
        /\ sdk_call[r].outcome = "Exception"
        /\ response[r] = Response(HTTP_500_INTERNAL_SERVER_ERROR,
                                  DetailBody(<<"Unexpected error: ", "Exception">>))
        /\ request[q].endpoint = "get_file_list"
        /\ sdk_call[q].outcome = "ClientError"
        /\ response[q] = Response(HTTP_500_INTERNAL_SERVER_ERROR,
                                  DetailBody(<<"Failed to list files: ", "ClientError">>))

====
